---- MODULE Spec2Model ----
(***************************************************************************)
(* Health-check feature of the Nuxt + Hono + TanStack Query sample:        *)
(*   server   : healthHandler (server/api/routes/health.ts)                *)
(*   transport: $fetch with a 5000 ms timeout                              *)
(*   fetchFn  : getHealthApi, in its Result-returning and throwing forms   *)
(*   cache    : the ['health'] query (retry: 1, refetchOnMount: true)      *)
(*   composer : useHealthAdapter / useHealthError / Index.vue              *)
(*   classify : classifyError over ERROR_DEFINITIONS                       *)
(*                                                                         *)
(* JavaScript values are encoded as strings and records; the tokens        *)
(* Undefined and Null stand for the two JavaScript non-values.             *)
(***************************************************************************)
EXTENDS Naturals, Sequences, FiniteSets, TLC

Undefined == "<undefined>"
Null == "<null>"

\* JavaScript truthiness of a string-or-non-value (app/helpers/error.ts:10).
Truthy(v) == v \notin {Undefined, Null, ""}

(***************************************************************************)
(* Client error table: app/constants/error.ts                              *)
(***************************************************************************)
NETWORK_ERROR == "NET_001"
TIMEOUT_ERROR == "NET_002"
SERVER_ERROR == "SVR_001"
SERVICE_UNAVAILABLE == "SVR_002"
UNKNOWN_ERROR == "UNK_001"

ERROR_CODES == {NETWORK_ERROR, TIMEOUT_ERROR, SERVER_ERROR, SERVICE_UNAVAILABLE, UNKNOWN_ERROR}

\* The user-facing messages are Japanese literals in the source; each is
\* written here as an ASCII token naming it:
\*   MSG_NETWORK  = 'ネットワークエラーが発生しました'
\*   MSG_TIMEOUT  = '接続がタイムアウトしました'
\*   MSG_SERVER   = 'サーバーエラーが発生しました'
\*   MSG_SERVICE_UNAVAILABLE = 'サービスが一時的に利用できません'
\*   MSG_UNKNOWN  = 'エラーが発生しました'
ERROR_DEFINITIONS_Swapped ==
  [c \in ERROR_CODES |->
     [errorCode |-> c,
      message |-> CASE c = NETWORK_ERROR -> "MSG_NETWORK"
                    [] c = TIMEOUT_ERROR -> "MSG_NETWORK"
                    [] c = SERVER_ERROR -> "MSG_SERVER"
                    [] c = SERVICE_UNAVAILABLE -> "MSG_SERVER"
                    [] OTHER -> "MSG_UNKNOWN"]]

ERROR_DEFINITIONS ==
  [c \in ERROR_CODES |->
     [errorCode |-> c,
      message |-> CASE c = NETWORK_ERROR -> "MSG_NETWORK"
                    [] c = TIMEOUT_ERROR -> "MSG_TIMEOUT"
                    [] c = SERVER_ERROR -> "MSG_SERVER"
                    [] c = SERVICE_UNAVAILABLE -> "MSG_SERVICE_UNAVAILABLE"
                    [] OTHER -> "MSG_UNKNOWN"]]

DEFAULT_ERROR == ERROR_DEFINITIONS[UNKNOWN_ERROR]

\* ERROR_DEFINITIONS is an object literal, so it inherits Object.prototype:
\* these names answer true to the `in` operator although they are no keys
\* of the table.
ObjectPrototypeKeys == {"constructor", "toString", "valueOf", "hasOwnProperty"}

\* `key in ERROR_DEFINITIONS` (own or inherited property).
InErrorDefinitions(key) == key \in (DOMAIN ERROR_DEFINITIONS) \cup ObjectPrototypeKeys

\* `ERROR_DEFINITIONS[key]` followed by `.errorCode` / `.message`: an
\* inherited member (a function of Object.prototype) has neither field.
DefinitionAt(key) ==
  IF key \in DOMAIN ERROR_DEFINITIONS
    THEN ERROR_DEFINITIONS[key]
    ELSE [errorCode |-> Undefined, message |-> Undefined]

(***************************************************************************)
(* Thrown values.  kind is the JavaScript type of the thrown value; data   *)
(* is its `data` property: shape "undefined" (no such property), "null",   *)
(* or "object" with an errorCode field (Undefined when the field is        *)
(* missing).                                                               *)
(***************************************************************************)
NoData == [shape |-> "undefined", errorCode |-> Undefined]
NullData == [shape |-> "null", errorCode |-> Undefined]
BodyData(code) == [shape |-> "object", errorCode |-> code]

Thrown(kind, message, data) == [kind |-> kind, message |-> message, data |-> data]

\* `fetchError.data?.errorCode` (app/helpers/error.ts:7).
OptionalErrorCode(data) == IF data.shape = "object" THEN data.errorCode ELSE Undefined

Returned(code, message) == [outcome |-> "return", errorCode |-> code, errorMessage |-> message]
ThrewTypeError == [outcome |-> "TypeError", errorCode |-> Undefined, errorMessage |-> Undefined]

classifyError_PassesCodeThrough(error) ==
  IF error.kind \in {"null", "undefined"}
    THEN ThrewTypeError
    ELSE LET serverErrorCode == OptionalErrorCode(error.data)
         IN IF Truthy(serverErrorCode)
              THEN Returned(serverErrorCode,
                            IF serverErrorCode \in DOMAIN ERROR_DEFINITIONS
                              THEN ERROR_DEFINITIONS[serverErrorCode].message
                              ELSE DEFAULT_ERROR.message)
              ELSE Returned(DEFAULT_ERROR.errorCode, DEFAULT_ERROR.message)

classifyError_AlwaysDefault(error) ==
  Returned(DEFAULT_ERROR.errorCode, DEFAULT_ERROR.message)

\* app/helpers/error.ts:4-23.  Reading `.data` of null or undefined throws a
\* TypeError; of a string (or any other primitive) it yields undefined.
classifyError(error) ==
  IF error.kind \in {"null", "undefined"}
    THEN ThrewTypeError
    ELSE LET serverErrorCode == OptionalErrorCode(error.data)
         IN IF Truthy(serverErrorCode) /\ InErrorDefinitions(serverErrorCode)
              THEN LET definition == DefinitionAt(serverErrorCode)
                   IN Returned(definition.errorCode, definition.message)
              ELSE Returned(DEFAULT_ERROR.errorCode, DEFAULT_ERROR.message)

(***************************************************************************)
(* Server: shared/constants/errorCode.ts (ERROR_TYPES, quoted in the       *)
(* error-handling notes), shared/constants/httpStatus.ts and the health    *)
(* route.                                                                  *)
(***************************************************************************)
ERROR_TYPES ==
  [CONNECTION_ERROR |-> "NET_001", TIMEOUT_ERROR |-> "NET_002",
   NETWORK_DISCONNECTED |-> "NET_003", DNS_RESOLUTION_ERROR |-> "NET_004",
   INTERNAL_SERVER_ERROR |-> "SVR_001", SERVICE_UNAVAILABLE |-> "SVR_002",
   DATABASE_ERROR |-> "SVR_003", EXTERNAL_API_ERROR |-> "SVR_004",
   FILE_OPERATION_ERROR |-> "SVR_005",
   UNEXPECTED_ERROR |-> "UNK_001", SYSTEM_ERROR |-> "UNK_002",
   PROCESSING_INTERRUPTED |-> "UNK_003", UNKNOWN_STATE |-> "UNK_004"]

HTTP_OK == 200
HTTP_REQUEST_TIMEOUT == 408
HTTP_INTERNAL_SERVER_ERROR == 500
HTTP_SERVICE_UNAVAILABLE == 503

\* errorCode.startsWith('SVR_')
StartsWithSVR(code) == code \in {"SVR_001", "SVR_002", "SVR_003", "SVR_004", "SVR_005"}

\* String.prototype.includes over the messages performHealthChecks throws.
Includes(message, needle) ==
  <<message, needle>> \in
    {<<"FILE_SYSTEM_ERROR", "FILE_SYSTEM_ERROR">>,
     <<"EXTERNAL_SERVICE_ERROR", "EXTERNAL_SERVICE_ERROR">>,
     <<"EXTERNAL_API_ERROR", "EXTERNAL_API_ERROR">>,
     <<"High memory usage detected", "memory">>}

MemoryLimitMB == 1024

\* checkMemoryUsage: heapUsed in MB against the limit.
checkMemoryUsage(memUsageMB) ==
  IF memUsageMB > MemoryLimitMB
    THEN [success |-> FALSE, error |-> "High memory usage detected"]
    ELSE [success |-> TRUE, error |-> Undefined]

\* checkFileSystemAccess: JSON.stringify yields a non-empty string ("ok"),
\* an empty value ("empty") or throws ("throws").
checkFileSystemAccess(stringify) ==
  IF stringify = "ok"
    THEN [success |-> TRUE, error |-> Undefined]
    ELSE [success |-> FALSE, error |-> "FILE_SYSTEM_ERROR"]

\* checkExternalService: the awaited mock check resolves true ("healthy"),
\* resolves false ("unhealthy") or rejects ("rejects").
checkExternalService(external) ==
  CASE external = "healthy" -> [success |-> TRUE, error |-> Undefined]
    [] external = "unhealthy" -> [success |-> FALSE, error |-> "EXTERNAL_SERVICE_ERROR"]
    [] OTHER -> [success |-> FALSE, error |-> "EXTERNAL_API_ERROR"]

\* performHealthChecks: the first failing check throws new Error(its error);
\* the result is "ok" or the message of the thrown Error.
performHealthChecks(memUsageMB, stringify, external) ==
  LET memoryResult == checkMemoryUsage(memUsageMB)
      fileSystemResult == checkFileSystemAccess(stringify)
      externalServiceResult == checkExternalService(external)
  IN CASE ~memoryResult.success -> memoryResult.error
       [] ~fileSystemResult.success -> fileSystemResult.error
       [] ~externalServiceResult.success -> externalServiceResult.error
       [] OTHER -> "ok"

\* createErrorResponse(errorCode, customMessage) with the current time.
createErrorResponse(errorCode, customMessage, now) ==
  [status |-> Undefined, error |-> customMessage, errorCode |-> errorCode, timestamp |-> now]

HealthBody(now) ==
  [status |-> "ok", error |-> Undefined, errorCode |-> Undefined, timestamp |-> now]

Response(httpStatus, body) == [httpStatus |-> httpStatus, body |-> body]

\* The catch block of the handler: the error code of a failed check.
FailedCheckErrorCode(message) ==
  CASE Includes(message, "FILE_SYSTEM_ERROR") -> ERROR_TYPES.FILE_OPERATION_ERROR
    [] Includes(message, "EXTERNAL_SERVICE_ERROR") \/ Includes(message, "EXTERNAL_API_ERROR")
         -> ERROR_TYPES.EXTERNAL_API_ERROR
    [] Includes(message, "memory") -> ERROR_TYPES.INTERNAL_SERVER_ERROR
    [] OTHER -> ERROR_TYPES.UNEXPECTED_ERROR

FailedCheckMessage(message) ==
  CASE Includes(message, "FILE_SYSTEM_ERROR") -> "File system health check failed"
    [] Includes(message, "EXTERNAL_SERVICE_ERROR") \/ Includes(message, "EXTERNAL_API_ERROR")
         -> "External service health check failed"
    [] Includes(message, "memory") -> "System resource health check failed"
    [] OTHER -> "Unexpected error during health check"

FailedCheckStatus_BadGateway(errorCode) == 502

\* The status of a failed check: 500 for SVR_ codes, 503 for the rest.
FailedCheckStatus(errorCode) ==
  IF StartsWithSVR(errorCode) THEN HTTP_INTERNAL_SERVER_ERROR ELSE HTTP_SERVICE_UNAVAILABLE

\* healthHandler: simulate is the validated query parameter ("none" when it
\* is absent); the other arguments are what the three checks observe.
healthHandler(simulate, memUsageMB, stringify, external, now) ==
  CASE simulate = "error" ->
         Response(HTTP_INTERNAL_SERVER_ERROR,
                  createErrorResponse(ERROR_TYPES.SERVICE_UNAVAILABLE,
                                      "Service temporarily unavailable for maintenance", now))
    [] simulate = "timeout" ->
         Response(HTTP_REQUEST_TIMEOUT,
                  createErrorResponse(ERROR_TYPES.TIMEOUT_ERROR,
                                      "Health check request timeout occurred", now))
    [] OTHER ->
         LET checks == performHealthChecks(memUsageMB, stringify, external)
         IN IF checks = "ok"
              THEN Response(HTTP_OK, HealthBody(now))
              ELSE LET errorCode == FailedCheckErrorCode(checks)
                   IN Response(FailedCheckStatus(errorCode),
                               createErrorResponse(errorCode, FailedCheckMessage(checks), now))

(***************************************************************************)
(* State.                                                                  *)
(*   variant       which revision of the client is running: "result"       *)
(*                 (services/health.ts returns a neverthrow Result) or     *)
(*                 "throw" (getHealthApi rethrows)                         *)
(*   mounted       an observer of the ['health'] query is subscribed       *)
(*   qStatus, fetchStatus, qData, qError, failureCount                     *)
(*                 the query's state as useQuery exposes it                *)
(*   stale         staleTime has elapsed since qData was written           *)
(*   retryCancelled  the last observer left while the fetch was running,   *)
(*                 so a rejection is not retried                           *)
(*   netpc         position of the fetch cycle: "idle", "invoke" (fetchFn  *)
(*                 is about to be called), "sent" (request in flight),     *)
(*                 "responded" (response on its way back)                  *)
(*   request       the simulate parameter of the request in flight         *)
(*   response      the server's response to it                             *)
(*   clock         the server's clock                                      *)
(*   attempts      fetchFn invocations of the current fetch cycle          *)
(*   cause         what started the current fetch cycle                    *)
(*   lastOk        the value of the last fetch that succeeded              *)
(*   lastOutcome   how the last attempt ended                              *)
(*   thrown, classified   input and result of the classifier harness       *)
(*   recording     whether this run keeps the request counters and the     *)
(*                 snapshot below (they observe the query, nothing reads   *)
(*                 them)                                                   *)
(*   joined        requests that met a running fetch since the query was   *)
(*                 last idle                                               *)
(*   restarts      of those, the ones that abandoned the running fetch     *)
(*   firstCalls    network calls that opened a fetch cycle since the query *)
(*                 was last idle                                           *)
(*   snapshot      what the query held, and how its last fetch had ended,  *)
(*                 when refetch() was called right after a refetch         *)
(*   input         the client-state store's input ref                      *)
(*   lastSet       the value last passed to updateInput (Null: none yet)   *)
(*   healthData    state.healthData of the store-backed useHealthStore     *)
(*   storepc       per caller of getHealthData: idle, or awaiting the      *)
(*                 refetch it started                                      *)
(*   lastResult    what the refetch that completed last resolved with      *)
(*   lastWithData  the data of the last completed refetch that carried     *)
(*                 data                                                    *)
(*   pluginpc      the vue-query plugin: boot (not run yet) or installed   *)
(*   isProcessServer, isProcessClient                                      *)
(*                 the side(s) the application runs on                     *)
(*   hooks         the Nuxt hooks the plugin has registered                *)
(*   provided      whether the plugin has provided queryClient             *)
(*   scriptpc      where the type-generation script stands                 *)
(*   child         the spawned dev server process: none, running, failed   *)
(*                 (could not be spawned) or exited                        *)
(*   serverChild   whether server.child is set (not null)                  *)
(*   isShuttingDown, serverStarted                                         *)
(*                 the script's two flags                                  *)
(*   killed        server.child.killed: a signal was delivered by kill()   *)
(*   signals       the signals the script has delivered to the child       *)
(*   forceTimer    the shutdownTimeout timer of stopDevServer              *)
(*   specFile      public/openapi.yaml: absent, existing (from an earlier  *)
(*                 run) or fetched (written by this run)                   *)
(*   fetchResult   how the fetch of the OpenAPI document went: none (not  *)
(*                 tried yet), ok or failed                                *)
(*   polls         readiness polls that found no endpoint ready            *)
(*   genChild      the spawned generate-types:ci process                   *)
(*   begun         the workflow steps that have begun, in order            *)
(*   finished      how many of them have resolved                          *)
(*   exit          how the script's process ended                          *)
(*   syncpc        where the version-sync script stands                    *)
(*   syncRevision  which revision of sync-node-version.ts runs             *)
(*   dryRun        its --dry-run option                                    *)
(*   baseVersion   the Volta Node version read from package.json           *)
(*   files         the content of each target file                         *)
(*   before        the content of each target file when the run began      *)
(*   results       the SyncResults collected so far                        *)
(*   failedAt      the target whose processing threw (NoTarget: none)      *)
(***************************************************************************)
VARIABLES variant, mounted, qStatus, fetchStatus, qData, qError, failureCount,
          stale, retryCancelled, netpc, request, response, clock, attempts, cause,
          lastOk, lastOutcome, thrown, classified,
          recording, joined, restarts, firstCalls, snapshot, input, lastSet,
          healthData, storepc, lastResult, lastWithData,
          pluginpc, isProcessServer, isProcessClient, hooks, provided,
          scriptpc, child, serverChild, isShuttingDown, serverStarted, killed,
          signals, forceTimer, specFile, fetchResult, polls, genChild, begun, finished,
          exit,
          syncpc, syncRevision, dryRun, baseVersion, files, before, results, failedAt

queryVars == <<qStatus, fetchStatus, qData, qError, failureCount, stale>>
netVars == <<retryCancelled, netpc, request, response>>
ghostVars == <<attempts, cause, lastOk, lastOutcome>>
classifyVars == <<thrown, classified>>
cycleVars == <<recording, joined, restarts, firstCalls, snapshot>>
inputVars == <<input, lastSet>>
\* State of the parts of the repository that the health query never touches.
storeVars == <<healthData, storepc, lastResult, lastWithData>>
pluginVars == <<pluginpc, isProcessServer, isProcessClient, hooks, provided>>
scriptVars == <<scriptpc, child, serverChild, isShuttingDown, serverStarted, killed,
                signals, forceTimer, specFile, fetchResult, polls, genChild, begun,
                finished, exit>>
syncVars == <<syncpc, syncRevision, dryRun, baseVersion, files, before, results, failedAt>>
sideVars == <<inputVars, storeVars, pluginVars, scriptVars, syncVars>>
vars == <<variant, mounted, qStatus, fetchStatus, qData, qError, failureCount,
          stale, retryCancelled, netpc, request, response, clock, attempts, cause,
          lastOk, lastOutcome, thrown, classified,
          recording, joined, restarts, firstCalls, snapshot, input, lastSet,
          healthData, storepc, lastResult, lastWithData,
          pluginpc, isProcessServer, isProcessClient, hooks, provided,
          scriptpc, child, serverChild, isShuttingDown, serverStarted, killed,
          signals, forceTimer, specFile, fetchResult, polls, genChild, begun, finished,
          exit,
          syncpc, syncRevision, dryRun, baseVersion, files, before, results, failedAt>>

MaxClock == 3
\* The request counters stop counting here (the count of network calls one
\* later).
MaxCounted == 1

\* A counter of a recorded run, one higher, up to max.
UpTo(n, max) == IF recording /\ n < max THEN n + 1 ELSE n

\* new Date().toISOString() at server time n.
toISOString(n) == "2024-01-0" \o ToString(n) \o "T00:00:00.000Z"

NoError == Thrown("none", "", NoData)
NoValue == [tag |-> "none", status |-> Undefined, timestamp |-> Undefined, error |-> NoError]
NoResponse == Response(0, [status |-> Undefined, error |-> Undefined,
                           errorCode |-> Undefined, timestamp |-> Undefined])
NoOutcome == [via |-> "none", simulate |-> "none", httpStatus |-> 0, errorCode |-> Undefined]
NotClassified == [outcome |-> "pending", errorCode |-> Undefined, errorMessage |-> Undefined]
NoSnapshot == [taken |-> FALSE, data |-> NoValue, error |-> NoError,
               outcome |-> NoOutcome, response |-> NoResponse]

(***************************************************************************)
(* Transport: $fetch('/api/health', { method: 'GET', timeout: 5_000 }).    *)
(* A 2xx response resolves with the parsed body; any other status rejects  *)
(* with a FetchError whose data is the parsed body; the timeout and a      *)
(* transport failure reject with a FetchError that has no data.            *)
(***************************************************************************)
FetchResolved(body) == [resolved |-> TRUE, body |-> body, error |-> NoError]
FetchRejected(error) == [resolved |-> FALSE, body |-> NoResponse.body, error |-> error]

Is2xx(httpStatus) == httpStatus >= 200 /\ httpStatus < 300

fetchResponse(resp) ==
  IF Is2xx(resp.httpStatus)
    THEN FetchResolved(resp.body)
    ELSE FetchRejected(Thrown("Error", "FetchError", BodyData(resp.body.errorCode)))

fetchTimeout_CarriesCode ==
  FetchRejected(Thrown("Error", "TimeoutError", BodyData(TIMEOUT_ERROR)))

fetchTimeout == FetchRejected(Thrown("Error", "TimeoutError", NoData))
fetchNetworkFailure == FetchRejected(Thrown("Error", "FetchError", NoData))

\* zGetApiHealthResponse.parse: status is a string and timestamp an ISO
\* datetime (server/api/schema/health.ts:19-22).
SchemaValid(body) == body.status # Undefined /\ body.timestamp # Undefined

ZodError == Thrown("Error", "ZodError", NoData)

(***************************************************************************)
(* fetchFn: getHealthApi.  Its result is what the returned promise settles *)
(* to: resolved with a value or rejected with a thrown value.              *)
(***************************************************************************)
Resolved(value) == [resolved |-> TRUE, value |-> value, error |-> NoError]
Rejected(error) == [resolved |-> FALSE, value |-> NoValue, error |-> error]

OkValue(body) == [tag |-> "ok", status |-> body.status, timestamp |-> body.timestamp, error |-> NoError]
ErrValue(error) == [tag |-> "err", status |-> Undefined, timestamp |-> Undefined, error |-> error]
PlainValue(body) == [tag |-> "value", status |-> body.status, timestamp |-> body.timestamp, error |-> NoError]

\* What the try block ends with: the validated body, or the thrown value.
TryFetch(fetched) ==
  IF fetched.resolved
    THEN IF SchemaValid(fetched.body) THEN FetchResolved(fetched.body) ELSE FetchRejected(ZodError)
    ELSE fetched

getHealthApi_Result_Rethrows(fetched) ==
  LET tried == TryFetch(fetched)
  IN IF tried.resolved
       THEN Resolved(OkValue(tried.body))
       ELSE Rejected(tried.error)

\* app/services/health.ts:7-20: every failure becomes err(Error).
getHealthApi_Result(fetched) ==
  LET tried == TryFetch(fetched)
  IN IF tried.resolved
       THEN Resolved(OkValue(tried.body))
       ELSE LET errorObj == IF tried.error.kind = "Error"
                              THEN tried.error
                              ELSE Thrown("Error", "Unknown error", NoData)
            IN Resolved(ErrValue(errorObj))

\* src/unnamed/part_006:5-19: the catch block logs errorDetail.data.errorCode
\* and rethrows; when the caught value has no data object that read throws a
\* TypeError, which is then what the promise rejects with.
getHealthApi_Throw(fetched) ==
  LET tried == TryFetch(fetched)
  IN IF tried.resolved
       THEN Resolved(PlainValue(tried.body))
       ELSE IF tried.error.data.shape = "object"
              THEN Rejected(tried.error)
              ELSE Rejected(Thrown("Error", "TypeError", NoData))

getHealthApi(fetched) ==
  IF variant = "result" THEN getHealthApi_Result(fetched) ELSE getHealthApi_Throw(fetched)

(***************************************************************************)
(* The ['health'] query (useQuery in queries/useHealthQuery.ts under the   *)
(* QueryClient defaults of plugins/vue-query.ts).  A query state is the    *)
(* record of the fields useQuery exposes.                                  *)
(***************************************************************************)
RetryCount == 1

Query == [status |-> qStatus, fetchStatus |-> fetchStatus, data |-> qData,
          error |-> qError, failureCount |-> failureCount, stale |-> stale]

InitialQuery == [status |-> "pending", fetchStatus |-> "idle", data |-> NoValue,
                 error |-> NoError, failureCount |-> 0, stale |-> FALSE]

SetQuery(q) ==
  /\ qStatus' = q.status
  /\ fetchStatus' = q.fetchStatus
  /\ qData' = q.data
  /\ qError' = q.error
  /\ failureCount' = q.failureCount
  /\ stale' = q.stale

\* A fetch starts: the failure count restarts; a query without data goes
\* back to pending and drops its error, a query with data keeps both.
fetchState(q) ==
  IF q.data.tag = "none"
    THEN [q EXCEPT !.fetchStatus = "fetching", !.failureCount = 0,
                   !.status = "pending", !.error = NoError]
    ELSE [q EXCEPT !.fetchStatus = "fetching", !.failureCount = 0]

\* fetchFn resolved: the value replaces data, the error is cleared and the
\* entry is fresh for staleTime.
successState(q, value) ==
  [q EXCEPT !.data = value, !.error = NoError, !.status = "success",
            !.fetchStatus = "idle", !.failureCount = 0, !.stale = FALSE]

errorState_DropsDataOnRepeat(q, error) ==
  [q EXCEPT !.data = IF q.status = "error" THEN NoValue ELSE q.data,
            !.error = error, !.status = "error", !.fetchStatus = "idle",
            !.failureCount = q.failureCount + 1]

errorState_ClearsData(q, error) ==
  [q EXCEPT !.data = NoValue, !.error = error, !.status = "error", !.fetchStatus = "idle",
            !.failureCount = q.failureCount + 1]

errorState_StatusKept(q, error) ==
  [q EXCEPT !.error = error, !.fetchStatus = "idle",
            !.failureCount = q.failureCount + 1]

\* fetchFn rejected for the last time: the error is stored, data is kept.
errorState(q, error) ==
  [q EXCEPT !.error = error, !.status = "error", !.fetchStatus = "idle",
            !.failureCount = q.failureCount + 1]

\* fetchFn rejected and is retried.
failedState(q) == [q EXCEPT !.failureCount = q.failureCount + 1]

shouldRetry_OffByOne(count) == count <= RetryCount

\* retry: 1 -- a rejection is retried while fewer than RetryCount attempts
\* of this cycle have failed.
shouldRetry(count) == count < RetryCount

isStale(q) == q.data.tag = "none" \/ q.stale

\* refetchOnMount: true -- a mounting observer fetches when the query has
\* no data or its data is stale.
shouldFetchOnMount(q) == isStale(q)

(***************************************************************************)
(* Init: the plugin has created the QueryClient; no component is mounted.  *)
(***************************************************************************)
MainInit ==
  /\ mounted = FALSE
  /\ qStatus = InitialQuery.status
  /\ fetchStatus = InitialQuery.fetchStatus
  /\ qData = InitialQuery.data
  /\ qError = InitialQuery.error
  /\ failureCount = InitialQuery.failureCount
  /\ stale = InitialQuery.stale
  /\ retryCancelled = FALSE
  /\ netpc = "idle"
  /\ request = "none"
  /\ response = NoResponse
  /\ clock = 0
  /\ attempts = 0
  /\ cause = "none"
  /\ lastOk = NoValue
  /\ lastOutcome = NoOutcome
  /\ joined = 0
  /\ restarts = 0
  /\ firstCalls = 0
  /\ snapshot = NoSnapshot

\* src/unnamed/part_008:2: const input = ref('').
StoreInit ==
  /\ input = ""
  /\ lastSet = Null

\* What healthQuery.refetch() (or getHealthApi()) can hand to the store: a
\* response body, or no data.
HealthObject(status, timestamp) ==
  [shape |-> "object", status |-> status, timestamp |-> timestamp]
UndefinedResult == [shape |-> "undefined", status |-> Undefined, timestamp |-> Undefined]
NullResult == [shape |-> "null", status |-> Undefined, timestamp |-> Undefined]
RejectedResult == [shape |-> "rejected", status |-> Undefined, timestamp |-> Undefined]
NoResult == [shape |-> "none", status |-> Undefined, timestamp |-> Undefined]
\* src/unnamed/part_007:10: healthData: {}.
EmptyObject == HealthObject(Undefined, Undefined)
Callers == {1, 2}

\* src/unnamed/part_007:9-11: the store's initial state.
HealthStoreInit ==
  /\ healthData = EmptyObject
  /\ storepc = [c \in Callers |-> "idle"]
  /\ lastResult = NoResult
  /\ lastWithData = NoResult

\* Before the plugin function runs, on either side (or, in a test, on both
\* or neither).
PluginBoot ==
  /\ pluginpc = "boot"
  /\ isProcessServer \in BOOLEAN
  /\ isProcessClient \in BOOLEAN
  /\ hooks = {}
  /\ provided = FALSE

\* app/plugins/vue-query.ts:5-26, run in the browser.
PluginInstalled ==
  /\ pluginpc = "installed"
  /\ isProcessServer = FALSE
  /\ isProcessClient = TRUE
  /\ hooks = {}
  /\ provided = TRUE

\* scripts/automated-generate-types.ts:47-50, 263-264: before main() runs.
ScriptInit ==
  /\ scriptpc = "init"
  /\ child = "none"
  /\ serverChild = FALSE
  /\ isShuttingDown = FALSE
  /\ serverStarted = FALSE
  /\ killed = FALSE
  /\ signals = {}
  /\ forceTimer = "off"
  /\ specFile = "absent"
  /\ fetchResult = "none"
  /\ polls = 0
  /\ genChild = "none"
  /\ begun = <<>>
  /\ finished = 0
  /\ exit = "none"

\* scripts/sync-node-version.ts:570-584: the two target files, in order.
Targets == <<".github/workflows/ci.yaml", "README.md">>
NoTarget == "<none>"

\* What matters of a file's content: whether it can be read, whether the
\* target's pattern matches, and the first match: the white space after the
\* label (for README.md there is none to vary) and the version.
Content(readable, match, spacing, version) ==
  [readable |-> readable, match |-> match, spacing |-> spacing, version |-> version]
Unreadable == Content(FALSE, FALSE, "-", "-")
NoMatch == Content(TRUE, FALSE, "-", "-")

\* Before sync-node-version.ts runs.
SyncInit ==
  /\ syncpc = "init"
  /\ syncRevision = "strict"
  /\ dryRun = FALSE
  /\ baseVersion = "-"
  /\ files = [t \in DOMAIN Targets |-> NoMatch]
  /\ before = [t \in DOMAIN Targets |-> NoMatch]
  /\ results = <<>>
  /\ failedAt = NoTarget

SideInit == StoreInit /\ HealthStoreInit /\ PluginInstalled /\ ScriptInit /\ SyncInit

Init ==
  /\ variant \in {"result", "throw"}
  /\ recording = FALSE
  /\ MainInit
  /\ SideInit
  /\ thrown = NoError
  /\ classified = NotClassified

\* The same start, in a run that keeps the request counters and the
\* snapshot.
InitObserved ==
  /\ variant \in {"result", "throw"}
  /\ recording = TRUE
  /\ MainInit
  /\ SideInit
  /\ thrown = NoError
  /\ classified = NotClassified

\* A fetch cycle starts for the reason c.
StartFetch(c) ==
  /\ SetQuery(fetchState(Query))
  /\ retryCancelled' = FALSE
  /\ netpc' = "invoke"
  /\ attempts' = 0
  /\ cause' = c
  /\ UNCHANGED <<request, response, clock, lastOk, lastOutcome>>

\* useHealth() creates one observer of the ['health'] query in
\* useHealthAdapter and one in useHealthError.
Observers == 2

\* The component using useHealth() is mounted: its observers subscribe one
\* after the other.  A fetch that should start while one is running joins
\* the running one (and lets it retry again); so does the fetch of every
\* observer after the first.
Mount ==
  /\ ~mounted
  /\ mounted' = TRUE
  /\ IF shouldFetchOnMount(Query)
       THEN IF fetchStatus = "idle"
              THEN /\ StartFetch("mount")
                   /\ joined' = IF recording THEN Observers - 1 ELSE 0
                   /\ restarts' = 0
                   /\ firstCalls' = 0
                   /\ snapshot' = NoSnapshot
              ELSE /\ retryCancelled' = FALSE
                   /\ joined' = UpTo(joined, MaxCounted)
                   /\ UNCHANGED <<queryVars, netpc, request, response, clock, ghostVars,
                                  restarts, firstCalls, snapshot>>
       ELSE UNCHANGED <<queryVars, netVars, clock, ghostVars, joined, restarts, firstCalls,
                        snapshot>>
  /\ recording' = recording
  /\ UNCHANGED <<variant, classifyVars, sideVars>>

Unmount_ResetsInput ==
  /\ mounted
  /\ mounted' = FALSE
  /\ retryCancelled' = (fetchStatus = "fetching")
  /\ input' = ""
  /\ UNCHANGED <<variant, queryVars, netpc, request, response, clock, ghostVars, classifyVars,
                 cycleVars, lastSet, storeVars, pluginVars, scriptVars, syncVars>>

\* The component is unmounted.  fetchFn does not use the abort signal, so a
\* running fetch goes on, but it is not retried any more.
Unmount ==
  /\ mounted
  /\ mounted' = FALSE
  /\ retryCancelled' = (fetchStatus = "fetching")
  /\ UNCHANGED <<variant, queryVars, netpc, request, response, clock, ghostVars, classifyVars,
                 cycleVars, sideVars>>

\* staleTime (5 minutes) has passed since data was written.
StaleTimeElapses ==
  /\ qData.tag # "none"
  /\ ~stale
  /\ stale' = TRUE
  /\ UNCHANGED <<variant, mounted, qStatus, fetchStatus, qData, qError, failureCount,
                 netVars, clock, ghostVars, classifyVars, cycleVars, sideVars>>

\* gcTime (30 minutes) has passed with no observer: the entry is discarded.
GcTimeElapses ==
  /\ ~mounted
  /\ fetchStatus = "idle"
  /\ Query # InitialQuery
  /\ SetQuery(InitialQuery)
  /\ lastOk' = NoValue
  /\ snapshot' = NoSnapshot
  /\ UNCHANGED <<variant, mounted, netVars, clock, attempts, cause, lastOutcome, classifyVars,
                 recording, joined, restarts, firstCalls, sideVars>>

CancelsRunningFetch_Always(q) == TRUE

\* refetch() leaves cancelRefetch at its default: a running fetch is
\* abandoned when the query already has data.
CancelsRunningFetch(q) == q.data.tag # "none"

\* What the query holds and how its last fetch ended.
Snapshot == [taken |-> TRUE, data |-> qData, error |-> qError,
             outcome |-> lastOutcome, response |-> response]

\* refetch() -- also what retryAction reaches.  Called while a fetch is
\* running, it abandons that fetch and starts over when the query has data
\* (cancelRefetch), and otherwise returns the running fetch's promise.
Refetch ==
  /\ mounted
  /\ IF fetchStatus = "idle"
       THEN /\ StartFetch("refetch")
            /\ joined' = 0
            /\ restarts' = 0
            /\ firstCalls' = 0
            /\ snapshot' = IF recording /\ cause = "refetch" THEN Snapshot ELSE NoSnapshot
       ELSE IF CancelsRunningFetch(Query)
              THEN /\ StartFetch("refetch")
                   /\ joined' = UpTo(joined, MaxCounted)
                   /\ restarts' = UpTo(restarts, MaxCounted)
                   /\ firstCalls' = firstCalls
                   /\ snapshot' = NoSnapshot
              ELSE /\ retryCancelled' = FALSE
                   /\ joined' = UpTo(joined, MaxCounted)
                   /\ UNCHANGED <<queryVars, netpc, request, response, clock, ghostVars,
                                  restarts, firstCalls, snapshot>>
  /\ UNCHANGED <<variant, mounted, classifyVars, recording, sideVars>>

\* The browser comes back online: refetchOnReconnect is left at its default,
\* so a stale query with an observer is fetched again.
Reconnect ==
  /\ mounted
  /\ fetchStatus = "idle"
  /\ isStale(Query)
  /\ StartFetch("reconnect")
  /\ joined' = 0
  /\ restarts' = 0
  /\ firstCalls' = 0
  /\ snapshot' = NoSnapshot
  /\ UNCHANGED <<variant, mounted, classifyVars, recording, sideVars>>

Simulate == {"none", "error", "timeout"}

\* fetchFn is invoked (first attempt, or a retry once retryDelay has
\* passed): GET /api/health leaves with the simulate parameter the
\* revision or the test harness puts in the query.
InvokeFetchFn ==
  /\ netpc = "invoke"
  /\ \E simulate \in Simulate : request' = simulate
  /\ netpc' = "sent"
  /\ response' = NoResponse
  /\ attempts' = attempts + 1
  /\ firstCalls' = IF attempts = 0 THEN UpTo(firstCalls, MaxCounted + 1) ELSE firstCalls
  /\ UNCHANGED <<variant, mounted, queryVars, retryCancelled, clock, cause, lastOk,
                 lastOutcome, classifyVars, recording, joined, restarts, snapshot, sideVars>>

HeapMB == {512, 1024, 1025}
StringifyOutcomes == {"ok", "empty", "throws"}
ExternalOutcomes == {"healthy", "unhealthy", "rejects"}

\* The server handles the request.
ServerRespond ==
  /\ netpc = "sent"
  /\ clock < MaxClock
  /\ clock' = clock + 1
  /\ \E memUsageMB \in HeapMB, stringify \in StringifyOutcomes, external \in ExternalOutcomes :
       response' = healthHandler(request, memUsageMB, stringify, external, toISOString(clock + 1))
  /\ netpc' = "responded"
  /\ UNCHANGED <<variant, mounted, queryVars, retryCancelled, request, ghostVars, classifyVars,
                 cycleVars, sideVars>>

\* The server handles the request within the same millisecond as the
\* request before: new Date().toISOString() is what it was.
ServerRespondSameInstant ==
  /\ netpc = "sent"
  /\ clock >= 1
  /\ \E memUsageMB \in HeapMB, stringify \in StringifyOutcomes, external \in ExternalOutcomes :
       response' = healthHandler(request, memUsageMB, stringify, external, toISOString(clock))
  /\ netpc' = "responded"
  /\ UNCHANGED <<variant, mounted, queryVars, retryCancelled, request, clock, ghostVars,
                 classifyVars, cycleVars, sideVars>>

Outcome(via, resp) ==
  [via |-> via, simulate |-> request, httpStatus |-> resp.httpStatus,
   errorCode |-> resp.body.errorCode]

\* The promise of fetchFn settles: the retryer retries a rejection or gives
\* up, and the query stores the result.
Settle(result, outcome) ==
  /\ lastOutcome' = outcome
  /\ IF result.resolved
       THEN /\ SetQuery(successState(Query, result.value))
            /\ netpc' = "idle"
            /\ lastOk' = IF result.value.tag \in {"ok", "value"} THEN result.value ELSE lastOk
       ELSE IF ~retryCancelled /\ shouldRetry(failureCount)
              THEN /\ SetQuery(failedState(Query))
                   /\ netpc' = "invoke"
                   /\ lastOk' = lastOk
              ELSE /\ SetQuery(errorState(Query, result.error))
                   /\ netpc' = "idle"
                   /\ lastOk' = lastOk
  /\ UNCHANGED <<variant, mounted, retryCancelled, request, response, clock, attempts,
                 cause, classifyVars, cycleVars, sideVars>>

\* The response reaches $fetch.
ResponseArrives ==
  /\ netpc = "responded"
  /\ Settle(getHealthApi(fetchResponse(response)), Outcome("response", response))

FetchTimeout_NoTimer ==
  /\ netpc = "timer"
  /\ UNCHANGED vars

\* 5000 ms pass without a response: $fetch aborts the request.
FetchTimeout ==
  /\ netpc \in {"sent", "responded"}
  /\ Settle(getHealthApi(fetchTimeout), Outcome("timeout", NoResponse))

\* The connection fails.
NetworkFailure ==
  /\ netpc = "sent"
  /\ Settle(getHealthApi(fetchNetworkFailure), Outcome("network", NoResponse))

ForeignBody == [status |-> Undefined, error |-> Undefined, errorCode |-> Undefined,
                timestamp |-> Undefined]

\* Something other than the health service answers 200 with a body that is
\* not the health schema.
ForeignResponse ==
  /\ netpc = "sent"
  /\ Settle(getHealthApi(fetchResponse(Response(HTTP_OK, ForeignBody))),
            Outcome("foreign", Response(HTTP_OK, ForeignBody)))

Next ==
  \/ Mount
  \/ Unmount
  \/ StaleTimeElapses
  \/ GcTimeElapses
  \/ Refetch
  \/ Reconnect
  \/ InvokeFetchFn
  \/ ServerRespond
  \/ ResponseArrives
  \/ FetchTimeout
  \/ NetworkFailure
  \/ ForeignResponse

Spec == Init /\ [][Next]_vars

\* The same program under its scheduling: fetchFn is called as soon as a
\* cycle starts (or once the retry delay has passed), and $fetch's 5000 ms
\* timer fires when the request is still unanswered.
SpecLive == Spec /\ WF_vars(InvokeFetchFn) /\ WF_vars(FetchTimeout)

(***************************************************************************)
(* Composer: what useHealth() hands to the page, derived from the query.   *)
(***************************************************************************)
Sentinel == [healthStatus |-> "-", healthTimestamp |-> "-"]

\* useQuery's isLoading: fetching for the first time.
isLoading == fetchStatus = "fetching" /\ qStatus = "pending"

OrDash_Passthrough(v) == v

\* status ?? '-'
OrDash(v) == IF v \in {Undefined, Null} THEN "-" ELSE v

healthStatusData_Result_Swapped(data) ==
  IF data.tag = "ok"
    THEN [healthStatus |-> data.timestamp, healthTimestamp |-> data.status]
    ELSE Sentinel

\* src/unnamed/part_004:13-22 (Result revision): match(ok -> fields, err -> sentinel).
healthStatusData_Result(data) ==
  IF data.tag = "none"
    THEN Sentinel
    ELSE IF data.tag = "ok"
           THEN [healthStatus |-> data.status, healthTimestamp |-> data.timestamp]
           ELSE Sentinel

\* app/composables/useHealth/useHealthAdapter.ts:13-19 (throwing revision).
healthStatusData_Throw(data) ==
  [healthStatus |-> OrDash(data.status), healthTimestamp |-> OrDash(data.timestamp)]

healthStatusData ==
  IF variant = "result" THEN healthStatusData_Result(qData) ELSE healthStatusData_Throw(qData)

NoErrorInfo == [present |-> FALSE, errorCode |-> Undefined, errorMessage |-> Undefined,
                retryAction |-> Undefined]

ErrorInfo(classification, retryAction) ==
  [present |-> TRUE, errorCode |-> classification.errorCode,
   errorMessage |-> classification.errorMessage, retryAction |-> retryAction]

healthErrorDisplayData_ArmsSwapped(data) ==
  IF data.tag = "ok"
    THEN ErrorInfo(classifyError(data.error), "refetch")
    ELSE NoErrorInfo

\* src/unnamed/part_005:16-34 (Result revision): null without data or on ok;
\* on err the classified error plus retryAction: refetch.
healthErrorDisplayData(data) ==
  IF data.tag = "err"
    THEN ErrorInfo(classifyError(data.error), "refetch")
    ELSE NoErrorInfo

\* app/composables/useHealth/useHealthAdapter.ts:22-26 (throwing revision).
errorCode(error) ==
  IF error.kind = "none"
    THEN Null
    ELSE IF OptionalErrorCode(error.data) \in {Undefined, Null}
           THEN Null
           ELSE OptionalErrorCode(error.data)

\* app/composables/useHealth/useHealthAdapter.ts:28-34 (throwing revision):
\* the adapter hands out the query's error and its errorCode.
adapterError(error) ==
  IF error.kind = "none"
    THEN NoErrorInfo
    ELSE [present |-> TRUE, errorCode |-> errorCode(error),
          errorMessage |-> error.message, retryAction |-> Undefined]

\* The error the composer exposes.
errorInfo ==
  IF variant = "result" THEN healthErrorDisplayData(qData) ELSE adapterError(qError)

\* Index.vue reads healthError from useHealth(); the useHealthError revision
\* that returns it is not among the sources.  It is taken to be the query's
\* error.
healthError == qError

\* app/components/index/Index.vue:11.
errorMessage(error) == IF error.kind = "none" THEN Null ELSE error.message

\* app/components/index/Index.vue:12.
hasError(error, code) == Truthy(errorMessage(error)) /\ Truthy(code)

\* app/components/index/Index.vue:18-34: which branch of the template renders.
IndexView ==
  IF isLoading THEN "loading"
  ELSE IF hasError(healthError, errorCode(qError)) THEN "error"
  ELSE "data"

\* The request state of the composer.
requestState ==
  IF fetchStatus = "fetching" THEN "Loading"
  ELSE IF variant = "result"
         THEN CASE qData.tag = "ok" -> "Success"
                [] qData.tag = "err" -> "Failure"
                [] OTHER -> "Idle"
         ELSE CASE qStatus = "success" -> "Success"
                [] qStatus = "error" -> "Failure"
                [] OTHER -> "Idle"

(***************************************************************************)
(* Client state: the store's input (store/health.ts) behind the            *)
(* sampleInput binding of useHealthInput.                                  *)
(***************************************************************************)
Inputs == {"", "abc", "x"}

updateInput_KeepsFirst(value) == input' = IF input = "" THEN value ELSE input

\* src/unnamed/part_008:4-6.
updateInput(value) == input' = value

\* app/composables/useHealth/useHealthInput.ts:9: the getter.
sampleInput == input

\* The store's action is called.
UpdateInput ==
  /\ \E value \in Inputs :
       /\ updateInput(value)
       /\ lastSet' = value
  /\ UNCHANGED <<variant, mounted, queryVars, netVars, clock, ghostVars, classifyVars,
                 cycleVars, storeVars, pluginVars, scriptVars, syncVars>>

\* app/composables/useHealth/useHealthInput.ts:10: the setter, reached from
\* the page's Input (Index.vue:32), which is rendered in the data view.
SetSampleInput ==
  /\ mounted
  /\ IndexView = "data"
  /\ \E value \in Inputs :
       /\ updateInput(value)
       /\ lastSet' = value
  /\ UNCHANGED <<variant, mounted, queryVars, netVars, clock, ghostVars, classifyVars,
                 cycleVars, storeVars, pluginVars, scriptVars, syncVars>>

\* The health feature together with its client state.
NextStore == Next \/ UpdateInput \/ SetSampleInput

SpecStore == Init /\ [][NextStore]_vars

(***************************************************************************)
(* The store-backed revision: useHealthStore keeps the last health data    *)
(* (src/unnamed/part_007, app/types/error.ts:27-55).                       *)
(***************************************************************************)
HealthTimestamps == {"2024-01-01T00:00:00Z", "2024-01-02T00:00:00Z"}
HealthObjects ==
  {HealthObject(s, t) : s \in {"healthy", "unhealthy"}, t \in HealthTimestamps}
RefetchResults == HealthObjects \cup {UndefinedResult, NullResult}

\* !healthData
Falsy(data) == data.shape \in {"undefined", "null"}

getHealthData_AlwaysAssigns(current, data) ==
  IF Falsy(data) THEN EmptyObject ELSE data

\* src/unnamed/part_007:16-25 (app/types/error.ts:35-44 likewise): the
\* store's healthData after the awaited call resolved with data.
getHealthData(current, data) ==
  IF Falsy(data) THEN current ELSE data

\* src/unnamed/part_007:28-29: the getters.
healthStatus == healthData.status
healthTimestamp == healthData.timestamp

\* getHealthData() is called: it awaits healthQuery.refetch().
GetHealthData ==
  /\ \E c \in Callers :
       /\ storepc[c] = "idle"
       /\ storepc' = [storepc EXCEPT ![c] = "awaiting"]
  /\ UNCHANGED <<variant, mounted, queryVars, netVars, clock, ghostVars, classifyVars,
                 cycleVars, inputVars, healthData, lastResult, lastWithData, pluginVars, scriptVars, syncVars>>

\* The awaited call resolves and getHealthData runs to its end.
RefetchResolves ==
  /\ \E c \in Callers, data \in RefetchResults :
       /\ storepc[c] = "awaiting"
       /\ storepc' = [storepc EXCEPT ![c] = "idle"]
       /\ healthData' = getHealthData(healthData, data)
       /\ lastResult' = data
       /\ lastWithData' = IF Falsy(data) THEN lastWithData ELSE data
  /\ UNCHANGED <<variant, mounted, queryVars, netVars, clock, ghostVars, classifyVars,
                 cycleVars, inputVars, pluginVars, scriptVars, syncVars>>

\* The awaited call rejects: getHealthData rejects before the assignment.
RefetchRejects ==
  /\ \E c \in Callers :
       /\ storepc[c] = "awaiting"
       /\ storepc' = [storepc EXCEPT ![c] = "idle"]
  /\ lastResult' = RejectedResult
  /\ UNCHANGED <<variant, mounted, queryVars, netVars, clock, ghostVars, classifyVars,
                 cycleVars, inputVars, healthData, lastWithData, pluginVars, scriptVars, syncVars>>

NextHealthStore == GetHealthData \/ RefetchResolves \/ RefetchRejects

SpecHealthStore == Init /\ [][NextHealthStore]_vars

(***************************************************************************)
(* The vue-query plugin (app/plugins/vue-query.ts) and the application     *)
(* that starts after it.                                                   *)
(***************************************************************************)
\* app/plugins/vue-query.ts:5-26: the hooks the plugin function registers.
\* It creates the QueryClient, installs VueQueryPlugin and provides the
\* client; it calls nuxtApp.hooks.hook nowhere.
registeredHooks(onServer, onClient) == {}

PluginSetup ==
  /\ pluginpc = "boot"
  /\ pluginpc' = "installed"
  /\ hooks' = hooks \cup registeredHooks(isProcessServer, isProcessClient)
  /\ provided' = TRUE
  /\ UNCHANGED <<variant, mounted, queryVars, netVars, clock, ghostVars, classifyVars,
                 cycleVars, inputVars, storeVars, isProcessServer, isProcessClient, scriptVars, syncVars>>

\* The application runs once its plugins are installed.
NextPlugin == PluginSetup \/ (pluginpc = "installed" /\ Next)

InitPlugin ==
  /\ variant \in {"result", "throw"}
  /\ recording = FALSE
  /\ MainInit
  /\ StoreInit
  /\ HealthStoreInit
  /\ PluginBoot
  /\ ScriptInit
  /\ SyncInit
  /\ thrown = NoError
  /\ classified = NotClassified

SpecPlugin == InitPlugin /\ [][NextPlugin]_vars

(***************************************************************************)
(* The type-generation script (scripts/automated-generate-types.ts).       *)
(***************************************************************************)
\* The readiness loop gives up after maxStartupTime; this many polls fit.
MaxPolls == 2

\* Everything but the script's own state.
appVars == <<variant, mounted, queryVars, netVars, clock, ghostVars, classifyVars,
             cycleVars, inputVars, storeVars, pluginVars, syncVars>>

\* scripts/automated-generate-types.ts:268-284: the five steps.
StepOrder == <<"startDevServer", "waitForServerReady", "fetchOpenApiSpec",
               "stopDevServer", "generateTypeDefinitions">>

\* A step resolved and the next one begins.
NextStep(step) ==
  /\ finished' = finished + 1
  /\ begun' = Append(begun, step)

\* process.exit(code).
ProcessExit(code) ==
  /\ scriptpc' = "exited"
  /\ exit' = code

\* scripts/automated-generate-types.ts:154-185, up to the returned promise:
\* stopDevServer(server) with server.child set.  kill() delivers the signal,
\* and sets child.killed, only to a process that has not exited.
stopDevServer(pc) ==
  /\ scriptpc' = pc
  /\ isShuttingDown' = TRUE
  /\ killed' = (killed \/ child = "running")
  /\ signals' = IF child = "running" THEN signals \cup {"SIGTERM"} ELSE signals
  /\ forceTimer' = "armed"

stopDevServerResolved_OnSignal == killed

\* scripts/automated-generate-types.ts:168-172: the promise of stopDevServer
\* resolves in the once('exit') handler, which also clears server.child.
stopDevServerResolved == ~serverChild

\* scripts/automated-generate-types.ts:287-299: the catch block.
Catch ==
  IF serverStarted /\ serverChild
    THEN /\ stopDevServer("cleanup")
         /\ exit' = exit
    ELSE /\ ProcessExit("exit1")
         /\ UNCHANGED <<isShuttingDown, killed, signals, forceTimer>>

\* main(): signal handlers are set and step 1 spawns `pnpm dev`.  The file
\* public/openapi.yaml may be left from an earlier run.
Main ==
  /\ scriptpc = "init"
  /\ scriptpc' = "starting"
  /\ specFile' \in {"absent", "existing"}
  /\ child' \in {"running", "failed"}
  /\ serverChild' = TRUE
  /\ begun' = <<"startDevServer">>
  /\ UNCHANGED <<appVars, fetchResult, isShuttingDown, serverStarted, killed, signals, forceTimer,
                 polls, genChild, finished, exit>>

\* scripts/automated-generate-types.ts:78-85, 270-274: the server printed
\* its Local: address; step 1 resolves and the readiness loop begins.
ServerStarted ==
  /\ scriptpc = "starting"
  /\ child = "running"
  /\ serverStarted' = TRUE
  /\ scriptpc' = "waiting"
  /\ NextStep("waitForServerReady")
  /\ UNCHANGED <<appVars, fetchResult, child, serverChild, isShuttingDown, killed, signals, forceTimer,
                 specFile, polls, genChild, exit>>

\* scripts/automated-generate-types.ts:73-75, 88-101: step 1 rejects: the
\* process could not be spawned, the server wrote an error to stderr, or
\* the startup timer fired.
StartFails ==
  /\ scriptpc = "starting"
  /\ \E why \in {"error", "stderr", "timeout"} :
       CASE why = "error" -> child = "failed"
         [] why = "stderr" -> child = "running"
         [] why = "timeout" -> serverChild /\ ~killed
  /\ Catch
  /\ UNCHANGED <<appVars, fetchResult, child, serverChild, serverStarted, specFile, polls, genChild,
                 begun, finished>>

\* The dev server process ends, by itself or after a signal.  The 'exit'
\* handlers run: the one of startDevServer (66-70) rejects step 1, the
\* once('exit') of stopDevServer (168-172) clears server.child.
ChildExits ==
  /\ scriptpc # "exited"
  /\ child = "running"
  /\ child' = "exited"
  /\ \E code \in {"zero", "nonzero"} :
       IF scriptpc = "starting" /\ ~isShuttingDown /\ code = "nonzero"
         THEN /\ Catch
              /\ serverChild' = serverChild
         ELSE /\ serverChild' = (serverChild /\ scriptpc \notin {"stopping", "cleanup"})
              /\ UNCHANGED <<scriptpc, isShuttingDown, killed, signals, forceTimer, exit>>
  /\ UNCHANGED <<appVars, fetchResult, serverStarted, specFile, polls, genChild, begun, finished>>

\* scripts/automated-generate-types.ts:117-141: one round of the readiness
\* loop.  An endpoint answers ok, or none does and the loop sleeps, or the
\* time is up.
WaitForServerReady ==
  /\ scriptpc = "waiting"
  /\ \E ok \in BOOLEAN :
       IF ok
         THEN /\ scriptpc' = "fetching"
              /\ NextStep("fetchOpenApiSpec")
              /\ UNCHANGED <<polls, isShuttingDown, killed, signals, forceTimer, exit>>
         ELSE IF polls < MaxPolls
           THEN /\ polls' = polls + 1
                /\ UNCHANGED <<scriptpc, begun, finished, isShuttingDown, killed, signals,
                               forceTimer, exit>>
           ELSE /\ Catch
                /\ UNCHANGED <<polls, begun, finished>>
  /\ UNCHANGED <<appVars, fetchResult, child, serverChild, serverStarted, specFile, genChild>>

fetchOpenApiSpec_AlwaysResolves(ok, file) ==
  [resolves |-> TRUE, file |-> IF ok THEN "fetched" ELSE file]

\* scripts/automated-generate-types.ts:191-223: the document is fetched and
\* written; a failure is survived when the file exists.  Whether the call
\* resolves, and the file after it.
fetchOpenApiSpec(ok, file) ==
  IF ok THEN [resolves |-> TRUE, file |-> "fetched"]
  ELSE IF file # "absent" THEN [resolves |-> TRUE, file |-> file]
  ELSE [resolves |-> FALSE, file |-> file]

\* scripts/automated-generate-types.ts:277-280: step 3 ends (the fetch
\* answered ok, or failed by a network error, a timeout or a non-ok status)
\* and, when it resolved, step 4 begins.
FetchOpenApiSpec ==
  /\ scriptpc = "fetching"
  /\ \E ok \in BOOLEAN :
       /\ fetchResult' = IF ok THEN "ok" ELSE "failed"
       /\ specFile' = fetchOpenApiSpec(ok, specFile).file
       /\ IF fetchOpenApiSpec(ok, specFile).resolves
            THEN /\ NextStep("stopDevServer")
                 /\ IF serverChild
                      THEN stopDevServer("stopping")
                      ELSE /\ scriptpc' = "stopping"
                           /\ UNCHANGED <<isShuttingDown, killed, signals, forceTimer>>
                 /\ exit' = exit
            ELSE /\ Catch
                 /\ UNCHANGED <<begun, finished>>
  /\ UNCHANGED <<appVars, child, serverChild, serverStarted, polls, genChild>>

\* scripts/automated-generate-types.ts:178-183: the shutdownTimeout timer.
ForceKillTimer ==
  /\ scriptpc # "exited"
  /\ forceTimer = "armed"
  /\ forceTimer' = "fired"
  /\ IF serverChild /\ ~killed /\ child = "running"
       THEN /\ signals' = signals \cup {"SIGKILL"}
            /\ killed' = TRUE
       ELSE UNCHANGED <<signals, killed>>
  /\ UNCHANGED <<appVars, fetchResult, scriptpc, child, serverChild, isShuttingDown, serverStarted,
                 specFile, polls, genChild, begun, finished, exit>>

\* scripts/automated-generate-types.ts:280-284: step 4 resolved; step 5
\* spawns the generator.
GenerateTypeDefinitions ==
  /\ scriptpc = "stopping"
  /\ stopDevServerResolved
  /\ serverStarted' = FALSE
  /\ scriptpc' = "generating"
  /\ genChild' = "running"
  /\ NextStep("generateTypeDefinitions")
  /\ UNCHANGED <<appVars, fetchResult, child, serverChild, isShuttingDown, killed, signals, forceTimer,
                 specFile, polls, exit>>

\* scripts/automated-generate-types.ts:237-248, 286: the generator ends.
GeneratorExits ==
  /\ scriptpc = "generating"
  /\ genChild = "running"
  /\ genChild' = "exited"
  /\ \E code \in {"zero", "nonzero"} :
       IF code = "zero"
         THEN /\ scriptpc' = "completed"
              /\ finished' = finished + 1
              /\ UNCHANGED <<isShuttingDown, killed, signals, forceTimer, exit>>
         ELSE /\ Catch
              /\ finished' = finished
  /\ UNCHANGED <<appVars, fetchResult, child, serverChild, serverStarted, specFile, polls, begun>>

\* scripts/automated-generate-types.ts:291-299: the cleanup's stopDevServer
\* resolved.
CleanupDone ==
  /\ scriptpc = "cleanup"
  /\ stopDevServerResolved
  /\ ProcessExit("exit1")
  /\ UNCHANGED <<appVars, fetchResult, child, serverChild, isShuttingDown, serverStarted, killed, signals,
                 forceTimer, specFile, polls, genChild, begun, finished>>

HandleExit_StopsServer ==
  /\ scriptpc \notin {"init", "exited"}
  /\ ProcessExit("exit0")
  /\ signals' = IF child = "running" THEN signals \cup {"SIGTERM"} ELSE signals
  /\ killed' = (killed \/ child = "running")
  /\ UNCHANGED <<appVars, fetchResult, child, serverChild, isShuttingDown, serverStarted,
                 forceTimer, specFile, polls, genChild, begun, finished>>

\* scripts/automated-generate-types.ts:307-315: SIGINT or SIGTERM arrives.
HandleExit ==
  /\ scriptpc \notin {"init", "exited"}
  /\ ProcessExit("exit0")
  /\ UNCHANGED <<appVars, fetchResult, child, serverChild, isShuttingDown, serverStarted, killed, signals,
                 forceTimer, specFile, polls, genChild, begun, finished>>

\* Nothing is left to wait for: the workflow returned, or stopDevServer
\* waits for the exit of a process that had exited before; the process ends.
EventLoopDrains ==
  /\ \/ scriptpc = "completed"
     \/ scriptpc \in {"stopping", "cleanup"} /\ serverChild /\ child # "running"
  /\ forceTimer # "armed"
  /\ ProcessExit("drained")
  /\ UNCHANGED <<appVars, fetchResult, child, serverChild, isShuttingDown, serverStarted, killed, signals,
                 forceTimer, specFile, polls, genChild, begun, finished>>

NextTypeGen ==
  \/ Main
  \/ ServerStarted
  \/ StartFails
  \/ ChildExits
  \/ WaitForServerReady
  \/ FetchOpenApiSpec
  \/ ForceKillTimer
  \/ GenerateTypeDefinitions
  \/ GeneratorExits
  \/ CleanupDone
  \/ HandleExit
  \/ EventLoopDrains

SpecTypeGen == Init /\ [][NextTypeGen]_vars

(***************************************************************************)
(* The version sync (scripts/sync-node-version.ts), in its two revisions:  *)
(* "plain" (lines 47-178) and "strict" (lines 292-655), which throws when  *)
(* a target's pattern is not found.                                        *)
(***************************************************************************)
Versions == {"20.10.0", "22.1.0"}
Contents ==
  {Unreadable, NoMatch}
    \cup {Content(TRUE, TRUE, sp, v) : sp \in {"one", "other"}, v \in Versions}

\* content.replace(target.pattern, target.replacement(version)): the first
\* match becomes the label, one blank (none in README.md) and the version;
\* without a match the content is returned as it is.
Replaced(content, version) ==
  IF content.match THEN Content(TRUE, TRUE, "one", version) ELSE content

Threw == [throws |-> TRUE, updated |-> FALSE, oldValue |-> "-", newValue |-> "-"]
SyncResult(updated, content, version) ==
  [throws |-> FALSE, updated |-> updated,
   oldValue |-> IF content.match THEN content.version ELSE "<undefined>",
   newValue |-> version]

updateFile_IgnoresDryRun(revision, content, version, dry, writeOk) ==
  IF ~content.readable \/ (revision = "strict" /\ ~content.match)
    THEN [result |-> Threw, content |-> content]
  ELSE IF Replaced(content, version) = content
    THEN [result |-> SyncResult(FALSE, content, version), content |-> content]
  ELSE IF ~writeOk
    THEN [result |-> Threw, content |-> content]
  ELSE [result |-> SyncResult(TRUE, content, version),
        content |-> Replaced(content, version)]

\* scripts/sync-node-version.ts:79-109 (plain), 398-413 and 436-453
\* (strict): updateFile on a file with this content: its result (or that it
\* threw) and the content of the file after it.
updateFile(revision, content, version, dry, writeOk) ==
  IF ~content.readable
    THEN [result |-> Threw, content |-> content]
  ELSE IF revision = "strict" /\ ~content.match
    THEN [result |-> Threw, content |-> content]
  ELSE LET updatedContent == Replaced(content, version)
           isUpdated == content # updatedContent
       IN IF isUpdated /\ ~dry
            THEN IF writeOk
                   THEN [result |-> SyncResult(TRUE, content, version),
                         content |-> updatedContent]
                   ELSE [result |-> Threw, content |-> content]
            ELSE [result |-> SyncResult(isUpdated, content, version),
                  content |-> content]

\* main() up to syncAllTargets: the options are parsed and the base version
\* is read from package.json; without one main() exits 1.
SyncMain ==
  /\ syncpc = "init"
  /\ \E revision \in {"plain", "strict"}, dry \in BOOLEAN, fs \in [DOMAIN Targets -> Contents] :
       /\ syncRevision' = revision
       /\ dryRun' = dry
       /\ files' = fs
       /\ before' = fs
  /\ \/ /\ baseVersion' \in Versions
        /\ syncpc' = "sync"
     \/ /\ baseVersion' = baseVersion
        /\ syncpc' = "exit1"
  /\ UNCHANGED <<variant, mounted, queryVars, netVars, clock, ghostVars, classifyVars,
                 cycleVars, inputVars, storeVars, pluginVars, scriptVars, results, failedAt>>

\* scripts/sync-node-version.ts:473-480 (112-114) and main's catch
\* (647-650): targets.map(updateFile) has come to target t.  An exception
\* of updateFile leaves map and is caught by main(), which exits 1; after
\* the last target the results are logged.
syncAllTargets(t, outcome) ==
  /\ files' = [files EXCEPT ![t] = outcome.content]
  /\ IF outcome.result.throws
       THEN /\ failedAt' = Targets[t]
            /\ syncpc' = "exit1"
            /\ results' = results
       ELSE /\ results' = Append(results, outcome.result)
            /\ failedAt' = failedAt
            /\ syncpc' = IF t = Len(Targets) THEN "done" ELSE "sync"

\* The next target is processed.
SyncNextTarget ==
  /\ syncpc = "sync"
  /\ \E writeOk \in BOOLEAN :
       LET t == Len(results) + 1
       IN syncAllTargets(t, updateFile(syncRevision, files[t], baseVersion, dryRun, writeOk))
  /\ UNCHANGED <<variant, mounted, queryVars, netVars, clock, ghostVars, classifyVars,
                 cycleVars, inputVars, storeVars, pluginVars, scriptVars,
                 syncRevision, dryRun, baseVersion, before>>

NextSync == SyncMain \/ SyncNextTarget

SpecSync == Init /\ [][NextSync]_vars

\* The health feature in a recorded run, against a server that may answer
\* twice within one millisecond.
NextObserved == Next \/ ServerRespondSameInstant

SpecObserved == InitObserved /\ [][NextObserved]_vars

(***************************************************************************)
(* Classifier harness: classifyError applied to thrown values of every     *)
(* shape.                                                                  *)
(***************************************************************************)
CodeInputs == ERROR_CODES \cup {Undefined, "", "SVR_004", "SVR_005", "NET_003",
                                "constructor", "toString"}
DataInputs == {NoData, NullData} \cup {BodyData(c) : c \in CodeInputs}
ThrownInputs ==
  {Thrown(k, m, d) : k \in {"Error", "object"}, m \in {"", "boom"}, d \in DataInputs}
    \cup {Thrown("string", "", NoData)}

ClassifyInit ==
  /\ variant = "result"
  /\ recording = FALSE
  /\ MainInit
  /\ SideInit
  /\ thrown \in ThrownInputs
  /\ classified = NotClassified

Classify ==
  /\ classified.outcome = "pending"
  /\ classified' = classifyError(thrown)
  /\ UNCHANGED <<variant, mounted, queryVars, netVars, clock, ghostVars, thrown,
                 cycleVars, sideVars>>

NextThrown ==
  /\ classified.outcome # "pending"
  /\ thrown' \in ThrownInputs
  /\ classified' = NotClassified
  /\ UNCHANGED <<variant, mounted, queryVars, netVars, clock, ghostVars, cycleVars, sideVars>>

ClassifyNext == Classify \/ NextThrown

SpecClassify == ClassifyInit /\ [][ClassifyNext]_vars

(***************************************************************************)
(* Claims.                                                                 *)
(***************************************************************************)
\* What the page shows of a stored value.
Shown(value) == [healthStatus |-> value.status, healthTimestamp |-> value.timestamp]

\* The query of the throwing revision holds an error together with the
\* value of an earlier successful fetch.
HoldsEarlierValue == variant = "throw" /\ lastOk # NoValue /\ qData = lastOk

C2_DefaultForUnrecognised ==
  (classified.outcome # "pending" /\ OptionalErrorCode(thrown.data) \notin ERROR_CODES)
    => classified = Returned("UNK_001", "MSG_UNKNOWN")

\* C3: for each of the five table codes, classifyError of an error whose
\* data.errorCode is that code returns that code with the table's message.
C3_TableCodesMapped ==
  \A c \in {"NET_001", "NET_002", "SVR_001", "SVR_002", "UNK_001"} :
    (classified.outcome # "pending" /\ thrown.kind \in {"Error", "object"}
       /\ thrown.data = BodyData(c))
      => classified =
           Returned(c, CASE c = "NET_001" -> "MSG_NETWORK"
                         [] c = "NET_002" -> "MSG_TIMEOUT"
                         [] c = "SVR_001" -> "MSG_SERVER"
                         [] c = "SVR_002" -> "MSG_SERVICE_UNAVAILABLE"
                         [] OTHER -> "MSG_UNKNOWN")

\* C3 witness: an error carrying NET_002 has been classified as the timeout
\* entry.
C3_Witness ==
  /\ thrown.data = BodyData("NET_002")
  /\ classified = Returned("NET_002", "MSG_TIMEOUT")

\* One step of the request state, with the causes a new cycle may have when
\* it starts from Failure and from Success.  The composer exists while the
\* component is mounted, so steps that leave it unmounted are not its steps.
RequestStep(fromFailure, fromSuccess) ==
  mounted' =>
    /\ (requestState = "Loading" /\ requestState' # "Loading")
         => requestState' \in {"Success", "Failure"}
    /\ (requestState = "Failure" /\ requestState' # "Failure")
         => (requestState' = "Loading" /\ cause' \in fromFailure)
    /\ (requestState = "Success" /\ requestState' # "Success")
         => (requestState' = "Loading" /\ cause' \in fromSuccess)
    /\ attempts' <= 2

\* C4 (as stated): Loading moves only to Success or Failure; Failure returns
\* to Loading only by retry() (the query's refetch); Success returns to
\* Loading only by refetch() or a background revalidation; no other
\* transition, and no more attempts than the retry count allows.
C4_AsStated == [][RequestStep({"refetch"}, {"refetch", "mount", "reconnect"})]_vars

\* C4 (amended): as stated, except that Failure, like Success, also returns
\* to Loading by a background revalidation (the stale query is fetched
\* again when an observer mounts or the connection comes back).
C4_RevalidationAlsoFromFailure ==
  [][RequestStep({"refetch", "mount", "reconnect"}, {"refetch", "mount", "reconnect"})]_vars

\* C4 witness: a cycle started by a revalidation while the Result
\* revision's query held a failure.
C4_Witness ==
  /\ variant = "result"
  /\ requestState = "Loading"
  /\ cause = "reconnect"
  /\ qData.tag = "err"

\* C5: a throwing fetchFn is invoked at most retry + 1 = 2 times per cycle;
\* once the cycle has ended in error the error is set and no further
\* invocation is scheduled.
C5_AtMostOneRetry ==
  /\ attempts <= 2
  /\ (qStatus = "error" /\ fetchStatus = "idle") =>
       /\ attempts >= 1
       /\ qError # NoError
       /\ netpc = "idle"

\* C5 witness: a cycle of the throwing revision that ended in error after
\* two invocations.
C5_Witness ==
  /\ variant = "throw"
  /\ qStatus = "error"
  /\ fetchStatus = "idle"
  /\ attempts = 2

C7_FailureVisible ==
  (mounted /\ variant = "throw" /\ requestState = "Failure" /\ qData.tag = "none")
    => IndexView = "error"

\* The last attempt was answered by the server for this simulate value and
\* the cycle ended in failure.
FailedOn(simulate) ==
  /\ requestState = "Failure"
  /\ lastOutcome.via = "response"
  /\ lastOutcome.simulate = simulate

C10_FailedCheckIs503 ==
  response # NoResponse =>
    /\ (request = "none" /\ response.body.errorCode # Undefined) => response.httpStatus = 503
    /\ request = "error" => response.httpStatus = 500

\* C11 (as stated): requests that meet a pending fetch of the key result in
\* exactly one network call.
C11_AsStated ==
  (fetchStatus = "fetching" /\ joined >= 1) => firstCalls <= 1

\* A request met a running fetch and did not abandon it.
JoinStep == joined' > joined /\ restarts' = restarts /\ fetchStatus = "fetching"

\* C11 (amended): requests that meet a pending fetch issue no further
\* network call and leave the running fetch as it is, except a refetch()
\* made while the query already holds data, which abandons the running
\* fetch and starts another one.
C11_OneCallUnlessRefetchOverData ==
  /\ [](/\ firstCalls <= 1 + restarts
        /\ (fetchStatus = "fetching" /\ restarts >= 1) => qData.tag # "none")
  /\ [][JoinStep => UNCHANGED <<queryVars, netpc, request, response, attempts, firstCalls>>]_vars

\* C11 witness: the first fetch of the page is in flight, the second
\* observer of useHealth() has joined it, and one call has been made.
C11_Witness ==
  /\ mounted
  /\ qData.tag = "none"
  /\ netpc = "sent"
  /\ joined >= 1
  /\ restarts = 0
  /\ firstCalls = 1

\* A request is in flight: sent and not yet settled or abandoned.
InFlight == netpc \in {"sent", "responded"}

\* C12: every request in flight ends (answered, or abandoned by the 5000 ms
\* timeout and treated as a failure), and the query does not stay fetching
\* forever unless refetch() is called again and again.
C12_EveryFetchCompletes ==
  /\ InFlight ~> ~InFlight
  /\ []<>(fetchStatus = "idle") \/ []<><<Refetch>>_vars

\* C12 witness: a cycle whose attempts were all abandoned by the timeout has
\* ended in Failure.
C12_Witness ==
  /\ mounted
  /\ requestState = "Failure"
  /\ lastOutcome.via = "timeout"
  /\ attempts >= 1

\* The last fetch ended with a 200 response whose body passes the schema.
SucceededWith(body) ==
  /\ fetchStatus = "idle"
  /\ lastOutcome.via = "response"
  /\ response.httpStatus = HTTP_OK
  /\ response.body = body
  /\ SchemaValid(body)

\* C13: after a successful response that passes validation the display data
\* is exactly the response's status and timestamp, isLoading is false and
\* errorInfo is null.
C13_RoundTrip ==
  (mounted /\ SucceededWith(response.body)) =>
    /\ healthStatusData.healthStatus = response.body.status
    /\ healthStatusData.healthTimestamp = response.body.timestamp
    /\ ~isLoading
    /\ ~errorInfo.present

\* C13 witness: the second response of the server is on display.
C13_Witness ==
  /\ mounted
  /\ SucceededWith(HealthBody(toISOString(2)))
  /\ healthStatusData = [healthStatus |-> "ok", healthTimestamp |-> toISOString(2)]

\* What the composer shows of a query's data and error.
ViewOf(data, error) ==
  [display |-> IF variant = "result" THEN healthStatusData_Result(data)
                                     ELSE healthStatusData_Throw(data),
   error |-> IF variant = "result" THEN healthErrorDisplayData(data) ELSE adapterError(error)]

\* refetch() was called right after a refetch had ended, and the backend has
\* answered it the way it answered the one before.
RefetchedTwiceSameAnswer ==
  /\ fetchStatus = "idle"
  /\ cause = "refetch"
  /\ snapshot.taken
  /\ snapshot.outcome = lastOutcome
  /\ snapshot.response = response

\* C14: a second refetch() that gets the same answer from the backend leaves
\* the display data and the errorInfo as the first left them.
C14_RefetchIdempotent ==
  RefetchedTwiceSameAnswer => ViewOf(qData, qError) = ViewOf(snapshot.data, snapshot.error)

\* C14 witness: two refetches in a row were answered 200 with the same body.
C14_Witness ==
  /\ RefetchedTwiceSameAnswer
  /\ lastOutcome.via = "response"
  /\ lastOutcome.httpStatus = HTTP_OK
  /\ healthStatusData.healthStatus = "ok"

\* C15: while data is absent and no error has occurred, the display data is
\* the sentinel pair and errorInfo is null.
C15_InitialSentinel ==
  (qData.tag = "none" /\ qError = NoError) =>
    /\ healthStatusData = Sentinel
    /\ ~errorInfo.present

\* C15 witness: the first fetch of the mounted page is in flight.
C15_Witness ==
  /\ mounted
  /\ isLoading
  /\ netpc = "sent"
  /\ qData.tag = "none"
  /\ healthStatusData = Sentinel

\* C16: the store starts with input '' and the sampleInput getter returns
\* the value most recently passed to updateInput, directly or through the
\* sampleInput setter.
C16_ReadsBackLastSet ==
  sampleInput = IF lastSet = Null THEN "" ELSE lastSet

\* C16 witness: 'abc' was set after another value and is read back.
C16_Witness ==
  /\ lastSet = "abc"
  /\ sampleInput = "abc"
  /\ qStatus # "pending"

\* C17: a step that sets the input changes nothing of the query, of the
\* request in flight or of the page's mounting, and starts no fetch; a step
\* of the query or of the request leaves the input alone; the input changes
\* only to the value its setter was given.
C17_ClientAndServerStateIndependent ==
  [][/\ (input' # input \/ lastSet' # lastSet) =>
          /\ UNCHANGED <<mounted, queryVars, netVars, clock, ghostVars>>
          /\ input' = lastSet'
     /\ (<<queryVars, netVars>>' # <<queryVars, netVars>>) => input' = input]_vars

\* C17 witness: the input was set while, after a successful fetch, another
\* request is in flight.
C17_Witness ==
  /\ input = "abc"
  /\ netpc = "sent"
  /\ lastOk # NoValue
\* A call of getHealthData runs to its end in this step.
CallCompletes == \E c \in Callers : storepc[c] = "awaiting" /\ storepc'[c] = "idle"

\* C18: getHealthData replaces the store's healthData exactly when the
\* awaited refetch resolved with data and leaves it as it was on null,
\* undefined (and on a rejection); so healthData, and with it the getters,
\* is always the data of the refetch that last completed with data (the
\* initial empty object before any did).
C18_StoreKeepsLastData ==
  /\ [](/\ healthData = (IF lastWithData = NoResult THEN EmptyObject ELSE lastWithData)
        /\ healthStatus = healthData.status
        /\ healthTimestamp = healthData.timestamp)
  /\ [][healthData' = (IF CallCompletes /\ lastResult'.shape = "object"
                          THEN lastResult' ELSE healthData)]_vars

\* C18 witness: after a refetch with data, a later refetch resolved with
\* null and the store still holds the earlier data.
C18_Witness ==
  /\ lastResult = NullResult
  /\ lastWithData = HealthObject("unhealthy", "2024-01-02T00:00:00Z")
  /\ healthData = lastWithData
  /\ healthStatus = "unhealthy"

\* C19 (as stated): the plugin registers the 'app:rendered' hook exactly
\* when it runs on the server and the 'app:created' hook exactly when it
\* runs on the client: both on both, none on neither.
C19_AsStated ==
  pluginpc = "installed"
    => /\ ("app:rendered" \in hooks) <=> isProcessServer
       /\ ("app:created" \in hooks) <=> isProcessClient

C21_FailureStopsServer == exit = "exit1" => child # "running"

\* C22 (as stated): once the shutdownTimeout timer of a pending
\* stopDevServer has fired and the child has not exited, the child has been
\* sent SIGKILL.
C22_ForceKillAfterTimeout ==
  (scriptpc \in {"stopping", "cleanup"} /\ forceTimer = "fired" /\ serverChild
     /\ child = "running")
    => "SIGKILL" \in signals

\* C23: when the fetch of the OpenAPI document fails, the file is left as it
\* was, and the step resolves (and step 4 begins) exactly when the file
\* exists; when it does not, the workflow goes to its failure handler and
\* the generator is never started.
C23_FetchFallback ==
  /\ [][(fetchResult = "none" /\ fetchResult' = "failed")
          => /\ specFile' = specFile
             /\ (specFile # "absent")
                  <=> (finished' = finished + 1 /\ begun' = Append(begun, "stopDevServer"))
             /\ (specFile = "absent") => scriptpc' \in {"cleanup", "exited"}]_vars
  /\ []((fetchResult = "failed" /\ specFile = "absent")
          => (genChild = "none" /\ scriptpc \in {"cleanup", "exited"}))

\* C23 witness: the fetch failed, the file of an earlier run is still there
\* and the generator runs.
C23_Witness ==
  /\ fetchResult = "failed"
  /\ specFile = "existing"
  /\ scriptpc = "generating"
  /\ genChild = "running"

\* C29: at any point of the workflow a SIGINT or SIGTERM can end the script,
\* and it does so with code 0 at once, without stopDevServer: no signal is
\* sent to the child, no flag or timer is set, the child is as it was.
C29_SignalExitsWithoutStop ==
  /\ [](scriptpc \notin {"init", "exited"} => ENABLED HandleExit)
  /\ [][(exit # "exit0" /\ exit' = "exit0")
          => /\ scriptpc' = "exited"
             /\ UNCHANGED <<signals, killed, isShuttingDown, forceTimer, child, serverChild>>]_vars

\* C29 witness: the script has exited with code 0 on a signal while the
\* started dev server runs, and no signal was sent to it.
C29_Witness ==
  /\ exit = "exit0"
  /\ serverStarted
  /\ child = "running"
  /\ signals = {}

\* The content of target t would change in a run with this base version.
WouldChange(t) ==
  /\ before[t].match
  /\ before[t].version # baseVersion \/ before[t].spacing # "one"

\* C24 (as stated): when the processing of one target failed, every other
\* target has still been processed and, outside dry-run, its file updated.
C24_TargetsIndependent ==
  (syncpc = "exit1" /\ failedAt # NoTarget)
    => \A t \in DOMAIN Targets :
         Targets[t] # failedAt
           => /\ t <= Len(results)
              /\ (WouldChange(t) /\ ~dryRun) => files[t] = Replaced(before[t], baseVersion)

\* C25: in dry-run mode no target file ever differs from what it was when
\* the run began, and every result collected marks its file as updated
\* exactly when the file's content would change.
C25_DryRunWritesNothing ==
  dryRun
    => /\ files = before
       /\ \A t \in DOMAIN results : results[t].updated <=> WouldChange(t)

\* C25 witness: a dry run has ended with a file marked as updated and left
\* as it was, and another marked as not updated.
C25_Witness ==
  /\ dryRun
  /\ syncpc = "done"
  /\ results[1].updated
  /\ ~results[2].updated
  /\ files[1] = before[1]
  /\ files[1].version # baseVersion

\* The failure the Result revision's query holds came about this way.
HoldsFailureVia(via) ==
  /\ variant = "result"
  /\ qData.tag = "err"
  /\ lastOutcome.via = via

\* C26: in the Result revision getHealthApi resolves with err(Error) for
\* every failure (a thrown value that is no Error included), so the query
\* holds the failure as data with its error unset, no attempt is retried,
\* and a held failure is fetched again only once it is stale or on
\* refetch().
C26_FailureIsData ==
  /\ [](variant = "result"
          => /\ qError = NoError
             /\ qStatus # "error"
             /\ failureCount = 0
             /\ attempts <= 1
             /\ (fetchStatus = "idle" /\ lastOutcome.via \in {"timeout", "network", "foreign"}
                   /\ qData.tag # "none")
                  => (qData.tag = "err" /\ qData.error.kind = "Error")
             /\ (fetchStatus = "idle" /\ lastOutcome.via = "response"
                   /\ ~Is2xx(lastOutcome.httpStatus) /\ qData.tag # "none")
                  => (qData.tag = "err" /\ qData.error.kind = "Error")
             /\ \A e \in ThrownInputs :
                  LET settled == getHealthApi_Result(FetchRejected(e))
                  IN /\ settled.resolved
                     /\ settled.value.tag = "err"
                     /\ settled.value.error.kind = "Error")
  /\ [][(variant = "result" /\ qData.tag = "err" /\ fetchStatus = "idle"
           /\ fetchStatus' = "fetching")
          => (stale \/ cause' = "refetch")]_vars

\* C26 witness: the request timed out once, was not retried, and the
\* failure is held as fresh data while the component is mounted.
C26_Witness ==
  /\ HoldsFailureVia("timeout")
  /\ mounted
  /\ fetchStatus = "idle"
  /\ attempts = 1
  /\ ~stale
  /\ qStatus = "success"

\* What the client's table makes of a code of the server.
ClientCodeOf(code) == IF code \in ERROR_CODES THEN code ELSE "UNK_001"

\* C27: whatever error response the health endpoint gives, classifyError
\* of the FetchError made of it yields the response's code when that is one
\* of the five table codes and UNK_001 otherwise; so the Result revision
\* shows the codes of the table as they are and SVR_004 and SVR_005 as
\* UNK_001.
C27_ServerCodesClassified ==
  /\ (netpc = "responded" /\ ~Is2xx(response.httpStatus))
       => LET made == classifyError(fetchResponse(response).error)
          IN /\ made.outcome = "return"
             /\ made.errorCode = ClientCodeOf(response.body.errorCode)
             /\ made.errorMessage = ERROR_DEFINITIONS[made.errorCode].message
  /\ (HoldsFailureVia("response") /\ ~Is2xx(lastOutcome.httpStatus))
       => /\ errorInfo.present
          /\ errorInfo.errorCode = ClientCodeOf(lastOutcome.errorCode)
          /\ lastOutcome.errorCode \in {"SVR_004", "SVR_005"} => errorInfo.errorCode = "UNK_001"

\* C27 witness: the external-service check failed (SVR_004) and the Result
\* revision shows UNK_001.
C27_Witness ==
  /\ HoldsFailureVia("response")
  /\ lastOutcome.errorCode = "SVR_004"
  /\ errorInfo.errorCode = "UNK_001"
  /\ mounted

\* C28: in the Result revision a failure without a server body (the client
\* timeout, a transport failure, a 2xx body that fails the schema) is shown
\* as UNK_001, and NET_001, NET_002, SVR_001 and SVR_002 are shown only
\* for an error response of the server that carries that code.
C28_NoBodyIsUnknown ==
  /\ (\E via \in {"timeout", "network", "foreign"} : HoldsFailureVia(via))
       => /\ errorInfo.present
          /\ errorInfo.errorCode = "UNK_001"
          /\ errorInfo.errorMessage = "MSG_UNKNOWN"
  /\ (variant = "result" /\ errorInfo.present
        /\ errorInfo.errorCode \in {"NET_001", "NET_002", "SVR_001", "SVR_002"})
       => /\ lastOutcome.via = "response"
          /\ ~Is2xx(lastOutcome.httpStatus)
          /\ lastOutcome.errorCode = errorInfo.errorCode

\* C28 witness: a 200 answer that fails the schema is shown as UNK_001.
C28_Witness ==
  /\ HoldsFailureVia("foreign")
  /\ lastOutcome.httpStatus = 200
  /\ errorInfo.errorCode = "UNK_001"
  /\ mounted

====
